---- MODULE Spec2Model ----
(***************************************************************************)
(* Model of src/sltm/index.js: the synthetic sequence/label generator, the *)
(* dataset builder with its one-hot encoding, the fixed prediction inputs, *)
(* the cancel handler and the asynchronous train() handler.                *)
(*                                                                         *)
(* Real numbers are scaled by ten (0.5 is 5, 0.9 is 9, 1.0 is 10).         *)
(* Text (a text box's value, a toString() result) is a sequence of         *)
(* one-character strings.                                                  *)
(***************************************************************************)
EXTENDS Integers, Sequences, FiniteSets

\* ------------------------------------------------------------------------
\* Program constants
\* ------------------------------------------------------------------------
sequenceLength == 10
stretchLengthThreshold == 4
\* model.fit's epochs option
epochs == 1000

\* ------------------------------------------------------------------------
\* Bounds of the model
\* ------------------------------------------------------------------------
\* generateDataset is explored for 0..MaxExamples examples
MaxExamples == 2
\* ... of 0..MaxSeqLen items each
MaxSeqLen == 5
\* ... and of at most MaxCells items in all
MaxCells == 10
\* number of clicks on start-training that are explored
MaxRuns == 2
\* number of train() invocations in flight at once under Spec
MaxInFlight == 1
\* under SpecOverlap a run is followed for this many epochs
MaxOverlapEpochs == 2

\* ------------------------------------------------------------------------
\* Sequence/label generator
\* ------------------------------------------------------------------------
\* Values Math.random() may return, times ten
RandomValues == {5, 7}

\* Math.random() > 0.5 ? 1 : 0
Item(random) == IF random > 5 THEN 1 ELSE 0

\* the locals of generateSequenceAndLabel before the loop
GenLocals == [sequence |-> <<>>, currentItem |-> -1, stretchLength |-> 0, label |-> 0]

\* a loop body that never resets the stretch
LoopBodyNoReset(st, item) ==
  LET stretch == st.stretchLength + 1
  IN  [sequence      |-> Append(st.sequence, item),
       currentItem   |-> item,
       stretchLength |-> stretch,
       label         |-> IF stretch >= stretchLengthThreshold THEN 1 ELSE st.label]

\* one iteration of the for loop, given the item drawn
LoopBody(st, item) ==
  LET same    == st.currentItem = item
      stretch == IF same THEN st.stretchLength + 1 ELSE 1
  IN  [sequence      |-> Append(st.sequence, item),
       currentItem   |-> IF same THEN st.currentItem ELSE item,
       stretchLength |-> stretch,
       label         |-> IF stretch >= stretchLengthThreshold THEN 1 ELSE st.label]

RECURSIVE GenLoop(_, _, _, _)
\* for (let i = 0; i < len; ++i), draws[i + 1] being the i-th Math.random()
GenLoop(st, draws, i, len) ==
  IF i < len THEN GenLoop(LoopBody(st, Item(draws[i + 1])), draws, i + 1, len)
  ELSE st

\* returns <<sequence, label>>
generateSequenceAndLabel(len, draws) ==
  LET st == GenLoop(GenLocals, draws, 0, len)
  IN  <<st.sequence, st.label>>

\* ------------------------------------------------------------------------
\* Buffers and one-hot encoding
\* ------------------------------------------------------------------------
\* tf.buffer(shape): zero-filled, indexed from 0
Buffer3(d0, d1, d2) == [a \in 0..(d0 - 1) |-> [b \in 0..(d1 - 1) |-> [c \in 0..(d2 - 1) |-> 0]]]
Buffer2(d0, d1) == [a \in 0..(d0 - 1) |-> [b \in 0..(d1 - 1) |-> 0]]

\* a set that writes the complementary channel
BufferSet3Flipped(buf, value, a, b, c) == [buf EXCEPT ![a][b][1 - c] = value]

\* buffer.set(value, a, b, c)
BufferSet3(buf, value, a, b, c) == [buf EXCEPT ![a][b][c] = value]

\* buffer.set(value, a, b)
BufferSet2(buf, value, a, b) == [buf EXCEPT ![a][b] = value]

RECURSIVE EncodeLoop(_, _, _, _, _)
\* for (let j = 0; j < sequenceLength; ++j) buffer.set(1, i, j, sequence[j])
EncodeLoop(buf, i, sequence, j, len) ==
  IF j < len THEN EncodeLoop(BufferSet3(buf, 1, i, j, sequence[j + 1]), i, sequence, j + 1, len)
  ELSE buf

\* the three fixed sequences of getInput
inputs ==
  << <<0, 1, 0, 1, 0, 1, 0, 0, 1, 0>>,
     <<0, 1, 1, 1, 1, 0, 1, 0, 0, 1>>,
     <<0, 0, 0, 0, 0, 0, 1, 0, 0, 1>> >>

RECURSIVE InputLoop(_, _, _)
\* for (let i = 0; i < numExamples; ++i) { ... } of getInput
InputLoop(buf, i, numExamples) ==
  IF i < numExamples
  THEN InputLoop(EncodeLoop(buf, i, inputs[i + 1], 0, sequenceLength), i + 1, numExamples)
  ELSE buf

\* the buffer getInput turns into a tensor
getInput == InputLoop(Buffer3(Len(inputs), sequenceLength, 2), 0, Len(inputs))

\* ------------------------------------------------------------------------
\* State
\* ------------------------------------------------------------------------
VARIABLES
  \* one invocation of generateDataset(numExamples, sequenceLength)
  dsPc,             \* "loop" | "returned"
  numExamples,      \* the first argument
  dsLength,         \* the second argument (it shadows the global sequenceLength)
  dsI,              \* the loop variable i
  sequencesBuffer,
  labelsBuffer,
  generated,        \* what generateSequenceAndLabel returned, call by call
  \* the page
  cancelTraining,   \* the global declared on line 3
  cancelRequested,  \* cancel() has been invoked
  cancelError,      \* what the last cancel() raised: "none" | "TypeError"
  results,          \* value of the results field, as text
  display,          \* train-epoch, train-loss, train-acc, val-loss, val-acc
  nStarted,         \* number of train() invocations so far
  \* the invocations of train(), by order of their click
  pc,               \* "idle" | "fit" | "done" | "failed"
  numTrainExamples, \* parseInt of the train-examples field
  epoch,            \* epochs completed by model.fit
  reports,          \* calls of onEpochEnd
  stopTraining,     \* model.stopTraining
  tensors,          \* trainSequences, trainLabels, data: "none" | "live" | "disposed"
  resultsWrites     \* writes of the predictions to the results field

dsVars == <<dsPc, numExamples, dsLength, dsI, sequencesBuffer, labelsBuffer, generated>>
pageVars == <<cancelTraining, cancelRequested, cancelError, results, display, nStarted>>
runVars == <<pc, numTrainExamples, epoch, reports, stopTraining, tensors, resultsWrites>>
vars == <<dsVars, pageVars, runVars>>

Runs == 1..MaxRuns

\* ------------------------------------------------------------------------
\* generateDataset
\* ------------------------------------------------------------------------
\* every way to draw len random values
Draws(len) == [1..len -> RandomValues]

\* a loop body that stores every label in row 0
DatasetLoopBodyLabelRow0(draws) ==
  LET pair == generateSequenceAndLabel(dsLength, draws)
  IN  /\ sequencesBuffer' = EncodeLoop(sequencesBuffer, dsI, pair[1], 0, dsLength)
      /\ labelsBuffer' = BufferSet2(labelsBuffer, pair[2], 0, 0)
      /\ generated' = Append(generated, pair)
      /\ dsI' = dsI + 1

\* the body of the outer loop for example i: generate, encode, store the label
DatasetLoopBody(draws) ==
  LET pair == generateSequenceAndLabel(dsLength, draws)
  IN  /\ sequencesBuffer' = EncodeLoop(sequencesBuffer, dsI, pair[1], 0, dsLength)
      /\ labelsBuffer' = BufferSet2(labelsBuffer, pair[2], dsI, 0)
      /\ generated' = Append(generated, pair)
      /\ dsI' = dsI + 1

\* a call generateDataset(m, n), up to the loop
DatasetInit ==
  \E m \in 0..MaxExamples, n \in 0..MaxSeqLen :
    /\ m * n <= MaxCells
    /\ dsPc = "loop"
    /\ numExamples = m
    /\ dsLength = n
    /\ dsI = 0
    /\ sequencesBuffer = Buffer3(m, n, 2)
    /\ labelsBuffer = Buffer2(m, 1)
    /\ generated = <<>>

\* for (let i = 0; i < numExamples; ++i) { ... }
DatasetStep ==
  /\ dsPc = "loop"
  /\ dsI < numExamples
  /\ \E draws \in Draws(dsLength) : DatasetLoopBody(draws)
  /\ UNCHANGED <<dsPc, numExamples, dsLength>>
  /\ UNCHANGED <<pageVars, runVars>>

\* return [sequencesBuffer.toTensor(), labelsBuffer.toTensor()]
DatasetReturn ==
  /\ dsPc = "loop"
  /\ ~(dsI < numExamples)
  /\ dsPc' = "returned"
  /\ UNCHANGED <<numExamples, dsLength, dsI, sequencesBuffer, labelsBuffer, generated>>
  /\ UNCHANGED <<pageVars, runVars>>

\* ------------------------------------------------------------------------
\* Numbers and text
\* ------------------------------------------------------------------------
NaN == [nan |-> TRUE, value |-> 0]
Num(v) == [nan |-> FALSE, value |-> v]

DigitChars == <<"0", "1", "2", "3", "4", "5", "6", "7", "8", "9">>
IsDigit(c) == \E d \in 1..Len(DigitChars) : DigitChars[d] = c
DigitValue(c) == (CHOOSE d \in 1..Len(DigitChars) : DigitChars[d] = c) - 1

RECURSIVE ParseDigits(_, _, _)
\* the value of the digits of text from position pos on, up to the first other character
ParseDigits(text, pos, acc) ==
  IF pos <= Len(text) /\ IsDigit(text[pos])
  THEN ParseDigits(text, pos + 1, acc * 10 + DigitValue(text[pos]))
  ELSE acc

RECURSIVE SkipBlanks(_, _)
SkipBlanks(text, pos) ==
  IF pos <= Len(text) /\ text[pos] = " " THEN SkipBlanks(text, pos + 1) ELSE pos

\* parseInt(text): leading blanks, an optional sign, then digits; NaN without a digit
parseInt(text) ==
  LET start  == SkipBlanks(text, 1)
      signed == start <= Len(text) /\ text[start] \in {"-", "+"}
      first  == IF signed THEN start + 1 ELSE start
      value  == ParseDigits(text, first, 0)
  IN  IF first <= Len(text) /\ IsDigit(text[first])
      THEN Num(IF signed /\ text[start] = "-" THEN 0 - value ELSE value)
      ELSE NaN

\* Math.round of a value in tenths: the nearest integer, a half rounding up
MathRound(tenths) == (tenths + 5) \div 10

RECURSIVE NumberToText(_)
\* the decimal digits of a natural number
NumberToText(n) ==
  IF n < 10 THEN <<DigitChars[n + 1]>>
  ELSE NumberToText(n \div 10) \o <<DigitChars[(n % 10) + 1]>>

RECURSIVE ArrayToString(_)
\* array.toString(): the elements joined by commas
ArrayToString(array) ==
  IF Len(array) = 0 THEN <<>>
  ELSE IF Len(array) = 1 THEN NumberToText(array[1])
  ELSE NumberToText(array[1]) \o <<",">> \o ArrayToString(Tail(array))

\* a map that leaves the values as they are
MapNoRound(output) == output

\* output.map(_ => Math.round(_))
MapRound(output) == [k \in 1..Len(output) |-> MathRound(output[k])]

\* ------------------------------------------------------------------------
\* The page and the framework
\* ------------------------------------------------------------------------
\* what the user may have typed into train-examples
TrainExamplesTexts == { <<"x">>, <<"0">>, <<"-", "1">>, <<"2">>, <<" ", "2", "x">> }

\* the logs model.fit may hand to onEpochEnd (tenths)
Logs ==
  { [loss |-> 3, acc |-> 9, val_loss |-> 3, val_acc |-> 9],
    [loss |-> 1, acc |-> 10, val_loss |-> 1, val_acc |-> 10] }

\* what the sigmoid unit may output for one example (tenths)
Predictions == {4, 5}

NoDisplay == [epoch |-> 0, loss |-> 0, acc |-> 0, val_loss |-> 0, val_acc |-> 0]
NoTensors == [trainSequences |-> "none", trainLabels |-> "none", data |-> "none"]

\* the state of the page once the script has run
PageInit ==
  /\ cancelTraining = FALSE
  /\ cancelRequested = FALSE
  /\ cancelError = "none"
  /\ results = <<>>
  /\ display = NoDisplay
  /\ nStarted = 0
  /\ pc = [r \in Runs |-> "idle"]
  /\ numTrainExamples = [r \in Runs |-> NaN]
  /\ epoch = [r \in Runs |-> 0]
  /\ reports = [r \in Runs |-> 0]
  /\ stopTraining = [r \in Runs |-> FALSE]
  /\ tensors = [r \in Runs |-> NoTensors]
  /\ resultsWrites = [r \in Runs |-> 0]

\* the invocations of train() that have not ended
InFlight == {r \in Runs : pc[r] = "fit"}

\* ------------------------------------------------------------------------
\* cancel
\* ------------------------------------------------------------------------
\* cancelTraining = true, cancelTraining being declared const: the assignment
\* throws a TypeError and the binding keeps its value
cancel ==
  /\ cancelTraining' = cancelTraining
  /\ cancelError' = "TypeError"

\* a click on cancel-training
Cancel ==
  /\ cancel
  /\ cancelRequested' = TRUE
  /\ UNCHANGED <<results, display, nStarted>>
  /\ UNCHANGED runVars
  /\ UNCHANGED dsVars

\* ------------------------------------------------------------------------
\* train
\* ------------------------------------------------------------------------
\* a dimension tf.buffer was not written for: a negative number or NaN
BadDimension(n) == n.nan \/ n.value < 0

\* whether tf.buffer([numExamples, 10, 2]) may throw: the framework decides for a
\* dimension that is no natural number, and takes every other one
BufferThrows(n) == IF BadDimension(n) THEN BOOLEAN ELSE {FALSE}

\* a stop condition that also fires at 0.9 itself
StopConditionAtLeast(logs) == cancelTraining \/ logs.val_acc >= 9

\* cancelTraining || logs.val_acc > 0.9
StopCondition(logs) == cancelTraining \/ logs.val_acc > 9

\* a report of the epoch's own index
ReportedEpochRaw(e) == e

\* the value written to train-epoch for the epoch of index e
ReportedEpoch(e) == e + 1

\* model.fit goes on to another epoch: fewer than `epochs` done, stopTraining unset
FitLoopContinues(r) == epoch[r] < epochs /\ ~stopTraining[r]

\* the locals of an invocation that has ended
EndRun(r, how) ==
  /\ pc' = [pc EXCEPT ![r] = how]
  /\ numTrainExamples' = [numTrainExamples EXCEPT ![r] = NaN]
  /\ epoch' = [epoch EXCEPT ![r] = 0]
  /\ reports' = [reports EXCEPT ![r] = 0]
  /\ stopTraining' = [stopTraining EXCEPT ![r] = FALSE]

\* train() up to the await: clear results, build the model, parse the count,
\* generate the dataset, call model.fit
TrainStart(r, n, threw) ==
  /\ results' = <<>>
  /\ nStarted' = r
  /\ resultsWrites' = [resultsWrites EXCEPT ![r] = 0]
  /\ IF threw
     THEN /\ EndRun(r, "failed")
          /\ tensors' = [tensors EXCEPT ![r] = NoTensors]
     ELSE /\ pc' = [pc EXCEPT ![r] = "fit"]
          /\ numTrainExamples' = [numTrainExamples EXCEPT ![r] = n]
          /\ epoch' = [epoch EXCEPT ![r] = 0]
          /\ reports' = [reports EXCEPT ![r] = 0]
          /\ stopTraining' = [stopTraining EXCEPT ![r] = FALSE]
          /\ tensors' = [tensors EXCEPT ![r] =
               [trainSequences |-> "live", trainLabels |-> "live", data |-> "none"]]

\* a click on start-training, at most `limit` invocations being in flight
Train(r, limit) ==
  /\ r = nStarted + 1
  /\ Cardinality(InFlight) < limit
  /\ \E text \in TrainExamplesTexts :
       \E threw \in BufferThrows(parseInt(text)) : TrainStart(r, parseInt(text), threw)
  /\ UNCHANGED <<cancelTraining, cancelRequested, cancelError, display>>
  /\ UNCHANGED dsVars

\* the callback onEpochEnd(e, logs) of invocation r
onEpochEnd(r, e, logs) ==
  /\ display' = [epoch |-> ReportedEpoch(e), loss |-> logs.loss, acc |-> logs.acc,
                 val_loss |-> logs.val_loss, val_acc |-> logs.val_acc]
  /\ stopTraining' = [stopTraining EXCEPT ![r] = IF StopCondition(logs) THEN TRUE ELSE @]
  /\ reports' = [reports EXCEPT ![r] = @ + 1]

\* model.fit completes one epoch and awaits the callback; `cap` bounds the epochs
\* that are followed
Epoch(r, cap) ==
  /\ pc[r] = "fit"
  /\ FitLoopContinues(r)
  /\ epoch[r] < cap
  /\ \E logs \in Logs : onEpochEnd(r, epoch[r], logs)
  /\ epoch' = [epoch EXCEPT ![r] = @ + 1]
  /\ UNCHANGED <<cancelTraining, cancelRequested, cancelError, results, nStarted>>
  /\ UNCHANGED <<pc, numTrainExamples, tensors, resultsWrites>>
  /\ UNCHANGED dsVars

\* model.fit resolves and train() runs to its end: getInput, predict, write the
\* results, dispose the three tensors
FitResolve(r) ==
  /\ pc[r] = "fit"
  /\ ~FitLoopContinues(r)
  /\ \E output \in [1..Len(inputs) -> Predictions] :
       results' = ArrayToString(MapRound(output))
  /\ resultsWrites' = [resultsWrites EXCEPT ![r] = @ + 1]
  /\ tensors' = [tensors EXCEPT ![r] =
       [trainSequences |-> "disposed", trainLabels |-> "disposed", data |-> "disposed"]]
  /\ EndRun(r, "done")
  /\ UNCHANGED <<cancelTraining, cancelRequested, cancelError, display, nStarted>>
  /\ UNCHANGED dsVars

\* model.fit rejects (an error of the framework): train() ends at the await
FitReject(r) ==
  /\ pc[r] = "fit"
  /\ EndRun(r, "failed")
  /\ UNCHANGED <<tensors, resultsWrites>>
  /\ UNCHANGED pageVars
  /\ UNCHANGED dsVars

\* model.fit resolves and model.predict throws: train() ends on line 138
PredictReject(r) ==
  /\ pc[r] = "fit"
  /\ ~FitLoopContinues(r)
  /\ tensors' = [tensors EXCEPT ![r].data = "live"]
  /\ EndRun(r, "failed")
  /\ UNCHANGED resultsWrites
  /\ UNCHANGED pageVars
  /\ UNCHANGED dsVars

\* ------------------------------------------------------------------------
\* Specifications
\* ------------------------------------------------------------------------
\* no call of generateDataset is followed
DatasetIdle ==
  /\ dsPc = "idle"
  /\ numExamples = 0
  /\ dsLength = 0
  /\ dsI = 0
  /\ sequencesBuffer = Buffer3(0, 0, 2)
  /\ labelsBuffer = Buffer2(0, 1)
  /\ generated = <<>>

Init == PageInit /\ DatasetIdle

Next ==
  \/ Cancel
  \/ \E r \in Runs : Train(r, MaxInFlight)
  \/ \E r \in Runs : Epoch(r, epochs)
  \/ \E r \in Runs : FitResolve(r)
  \/ \E r \in Runs : FitReject(r)
  \/ \E r \in Runs : PredictReject(r)

\* the page: clicks on the two buttons and the training runs they start
Spec == Init /\ [][Next]_vars

\* the event loop runs a pending epoch or continuation in the end
Fairness ==
  \A r \in Runs :
    /\ WF_vars(Epoch(r, epochs))
    /\ WF_vars(FitResolve(r) \/ PredictReject(r))

FairSpec == Spec /\ Fairness

NextOverlap ==
  \/ Cancel
  \/ \E r \in Runs : Train(r, MaxInFlight + 1)
  \/ \E r \in Runs : Epoch(r, MaxOverlapEpochs)
  \/ \E r \in Runs : FitResolve(r)
  \/ \E r \in Runs : FitReject(r)
  \/ \E r \in Runs : PredictReject(r)

\* the page with overlapping invocations of train(), each followed for its first epochs
SpecOverlap == Init /\ [][NextOverlap]_vars

DataInit == PageInit /\ DatasetInit

DataNext == DatasetStep \/ DatasetReturn

\* calls of generateDataset
SpecData == DataInit /\ [][DataNext]_vars

\* ------------------------------------------------------------------------
\* Properties of the generator and the dataset builder (SpecData)
\* ------------------------------------------------------------------------
\* seq holds t or more equal items in a row
HasRun(seq, t) ==
  \E s \in 1..Len(seq) :
    /\ s + t - 1 <= Len(seq)
    /\ \A k \in s..(s + t - 1) : seq[k] = seq[s]

\* the channels of position j of a row that hold 1
Hot(row, j) == {c \in DOMAIN row[j] : row[j][c] = 1}

\* position j of a row decodes to digit d: channel d alone holds 1, the other holds 0
DecodesTo(row, j, d) ==
  /\ DOMAIN row[j] = 0..1
  /\ Hot(row, j) = {d}
  /\ row[j][1 - d] = 0

\* the digits a row decodes to, as a sequence
DecodeRow(row, len) == [j \in 1..len |-> CHOOSE d \in 0..1 : row[j - 1][d] = 1]

\* C1: every sequence the generator returned has the requested length and a label
\* that is 1 exactly when the sequence holds stretchLengthThreshold or more equal
\* digits in a row, and 0 otherwise; below the threshold length the label is 0.
C1_LabelIffRun ==
  \A k \in 1..Len(generated) :
    LET seq   == generated[k][1]
        label == generated[k][2]
    IN  /\ Len(seq) = dsLength
        /\ \A j \in 1..Len(seq) : seq[j] \in {0, 1}
        /\ label \in {0, 1}
        /\ label = 1 <=> HasRun(seq, stretchLengthThreshold)
        /\ dsLength < stretchLengthThreshold => label = 0

\* a sequence with a long enough stretch in its middle has been generated and labelled 1
C1_Witness ==
  \E k \in 1..Len(generated) :
    /\ generated[k][2] = 1
    /\ Len(generated[k][1]) > stretchLengthThreshold
    /\ generated[k][1][1] # generated[k][1][2]

\* C2: generateDataset(M, N) returns M examples of N positions each, every position
\* holding 1 in exactly one of its two channels and 0 in the other, and M labels,
\* label i being the one the generator computed for sequence i.
C2_DatasetShape ==
  dsPc = "returned" =>
    /\ Len(generated) = numExamples
    /\ DOMAIN sequencesBuffer = 0..(numExamples - 1)
    /\ DOMAIN labelsBuffer = 0..(numExamples - 1)
    /\ \A i \in 0..(numExamples - 1) :
         /\ DOMAIN sequencesBuffer[i] = 0..(dsLength - 1)
         /\ \A j \in 0..(dsLength - 1) :
              \E d \in 0..1 : DecodesTo(sequencesBuffer[i], j, d)
         /\ DOMAIN labelsBuffer[i] = 0..0
         /\ labelsBuffer[i][0] = generated[i + 1][2]

\* a dataset of two examples with different labels has been returned
C2_Witness ==
  /\ dsPc = "returned"
  /\ numExamples = 2
  /\ dsLength >= stretchLengthThreshold
  /\ labelsBuffer[0][0] = 0
  /\ labelsBuffer[1][0] = 1

\* C8: the one-hot encoding is reversible and repeatable: each encoded position
\* decodes to the digit of the sequence at that position, in the datasets built by
\* generateDataset and in the input built by getInput, and encoding the decoded
\* digits again gives the same row.
C8_EncodingReversible ==
  /\ \A i \in 0..(dsI - 1) :
       /\ \A j \in 0..(dsLength - 1) :
            DecodesTo(sequencesBuffer[i], j, generated[i + 1][1][j + 1])
       /\ DecodeRow(sequencesBuffer[i], dsLength) = generated[i + 1][1]
       /\ EncodeLoop(Buffer3(1, dsLength, 2), 0,
                     DecodeRow(sequencesBuffer[i], dsLength), 0, dsLength)[0]
            = sequencesBuffer[i]
  /\ LET data == getInput
     IN  \A i \in 0..(Len(inputs) - 1) :
           /\ Len(inputs[i + 1]) = sequenceLength
           /\ \A j \in 0..(sequenceLength - 1) : DecodesTo(data[i], j, inputs[i + 1][j + 1])
           /\ DecodeRow(data[i], sequenceLength) = inputs[i + 1]

\* a sequence holding both digits has been encoded
C8_Witness ==
  \E i \in 0..(dsI - 1) :
    /\ dsLength >= 2
    /\ generated[i + 1][1][1] = 0
    /\ generated[i + 1][1][2] = 1
    /\ sequencesBuffer[i][0][0] = 1
    /\ sequencesBuffer[i][1][1] = 1

\* ------------------------------------------------------------------------
\* Properties of the page (Spec, FairSpec, SpecOverlap)
\* ------------------------------------------------------------------------
TensorNames == {"trainSequences", "trainLabels", "data"}

\* an example count no dataset can be built from: NaN, zero or negative
InvalidCount(n) == n.nan \/ n.value <= 0

RECURSIVE SplitCommas(_, _, _)
\* the fields of a comma-separated text, `field` being the one read so far
SplitCommas(text, pos, field) ==
  IF pos > Len(text) THEN <<field>>
  ELSE IF text[pos] = "," THEN <<field>> \o SplitCommas(text, pos + 1, <<>>)
  ELSE SplitCommas(text, pos + 1, Append(field, text[pos]))

\* text is a comma-separated list of exactly three values, each 0 or 1
ThreeBits(text) ==
  LET fields == SplitCommas(text, 1, <<>>)
  IN  /\ Len(fields) = Len(inputs)
      /\ \A k \in 1..Len(fields) : fields[k] \in {<<"0">>, <<"1">>}

\* C3: once cancel() has been invoked the flag cancelTraining is true, and the
\* invocation raised no error.
C3_CancelSetsFlag ==
  cancelRequested => (cancelTraining = TRUE /\ cancelError = "none")

\* one report of run r: a call of onEpochEnd that leaves the run fitting
Reported(r) == pc[r] = "fit" /\ pc'[r] = "fit" /\ reports'[r] # reports[r]

\* C4: once cancellation has been requested, the next epoch boundary of a run sets
\* model.stopTraining, so that a run cancelled before its first epoch completed
\* halts after at most one epoch.
C4_CancelStopsAtBoundary ==
  [][\A r \in Runs : (cancelRequested /\ Reported(r)) => stopTraining'[r]]_vars

\* C5: within a run there is one report per completed epoch, never after the run
\* was stopped, and the k-th report writes k to train-epoch.
C5_ReportsInOrder ==
  /\ [](\A r \in Runs : reports[r] = epoch[r])
  /\ [][\A r \in Runs :
          Reported(r) =>
            /\ ~stopTraining[r]
            /\ reports'[r] = reports[r] + 1
            /\ epoch'[r] = epoch[r] + 1
            /\ display'.epoch = reports'[r]]_vars

\* a run has made its third report, and train-epoch shows 3
C5_Witness ==
  \E r \in Runs : pc[r] = "fit" /\ reports[r] = 3 /\ display.epoch = 3

\* C6: when an invocation of train() has ended, by any path, none of the tensors it
\* allocated is still live.
C6_EndedRunsDisposed ==
  \A r \in Runs :
    pc[r] \in {"done", "failed"} => \A t \in TensorNames : tensors[r][t] # "live"

\* C7: training never starts from an invalid example count: the request has failed
\* before model.fit is called.
C7_InvalidCountRejected ==
  \A r \in Runs : pc[r] = "fit" => ~InvalidCount(numTrainExamples[r])

\* C9, as stated: the results field is empty while a run's epochs are running, and a
\* run that ended without an error has written it once.
C9_EmptyWhileFitting ==
  \A r \in Runs :
    /\ pc[r] = "fit" => (results = <<>> /\ resultsWrites[r] = 0)
    /\ pc[r] = "done" => resultsWrites[r] = 1

\* C9, amended: train() clears the results field when it starts; the run does not
\* write it while its epochs are running, so that it changes then only when another
\* invocation of train() starts or resolves; and when fit resolves without an error
\* the run sets it, exactly once, to three comma-separated values that are 0 or 1.
C9_ResultsWrittenOnce ==
  /\ [](\A r \in Runs :
          /\ pc[r] \in {"fit", "failed"} => resultsWrites[r] = 0
          /\ pc[r] = "done" => resultsWrites[r] = 1)
  /\ [][/\ nStarted' # nStarted => results' = <<>>
        /\ \A r \in Runs :
             /\ (pc[r] = "fit" /\ pc'[r] = "done") => ThreeBits(results')
             /\ (pc[r] = "fit" /\ pc'[r] = "failed") => results' = results
             /\ Reported(r) => results' = results
        /\ results' # results =>
             \/ nStarted' # nStarted
             \/ \E r \in Runs : pc[r] = "fit" /\ pc'[r] = "done"]_vars

\* two runs have ended without an error, the second having replaced the first's results
C9_Witness ==
  /\ \A r \in 1..2 : pc[r] = "done" /\ resultsWrites[r] = 1
  /\ results = <<"0", ",", "1", ",", "1">>

\* C10: a run completes at most `epochs` epochs; an epoch boundary sets
\* model.stopTraining exactly when the flag is true or the validation accuracy is
\* above 0.9, and no epoch follows it; fit resolves only once stopped or after
\* `epochs` epochs; and every run ends.
C10_RunTerminates ==
  /\ [](\A r \in Runs : epoch[r] <= epochs)
  /\ [][\A r \in Runs :
          /\ Reported(r) =>
               /\ ~stopTraining[r]
               /\ stopTraining'[r] <=> (cancelTraining \/ display'.val_acc > 9)
          /\ (pc[r] = "fit" /\ pc'[r] = "done") =>
               (stopTraining[r] \/ epoch[r] = epochs)]_vars
  /\ \A r \in Runs : (pc[r] = "fit") ~> (pc[r] # "fit")

\* a run has completed all its epochs without being stopped
C10_Witness ==
  \E r \in Runs : pc[r] = "fit" /\ epoch[r] = epochs /\ ~stopTraining[r]

====
